---- MODULE Spec2Model ----
(***************************************************************************)
(* playlist_genius: the fingerprint cache (services/cache.ts over          *)
(* node-cache), the memoized entry points of PlaylistGenius (index.ts) and *)
(* the token and retry handling of SpotifyService (services/spotify.ts).   *)
(*                                                                         *)
(* A JavaScript value is a tagged record: Str(s) a primitive, Arr(a) an    *)
(* array of primitives, Obj(o) an object whose own enumerable properties   *)
(* are the sequence o of <<name, value>> pairs in insertion order.         *)
(* SHA-256 is taken to be collision free: the digest of a string is        *)
(* modelled by the string itself, a sequence of JSON tokens.               *)
(***************************************************************************)
EXTENDS Integers, Sequences, FiniteSets, TLC

----------------------------------------------------------------------------
(* Bounds of the model *)

MaxTime == 2        \* the clock runs from 0 to MaxTime
MaxStat == 2        \* get is no longer called once hits + misses reaches it
StdTTL == 1         \* options.stdTTL, in clock units
CheckPeriod == 1    \* options.checkperiod, in clock units
MaxKeys == 2        \* options.maxKeys
MaxInvocations == 3  \* calls of PlaylistGenius methods in one run
MaxAttempts == 5    \* a call of SpotifyService invokes its request at most so often

----------------------------------------------------------------------------
(* JavaScript values *)

Str(s) == [k |-> "s", v |-> s]
Arr(a) == [k |-> "a", v |-> a]
Obj(o) == [k |-> "o", v |-> o]

IsArr(x) == x.k = "a"
IsObj(x) == x.k = "o"

Undefined == "undefined"

\* the value null
Null == [k |-> "null", v |-> << >>]

\* x[name], or undefined
Field(x, name) ==
  IF \E i \in 1..Len(x.v) : x.v[i][1] = name
    THEN x.v[CHOOSE i \in 1..Len(x.v) : x.v[i][1] = name][2]
    ELSE Str(Undefined)

\* The strings of the model in ascending order. All are lower-case ASCII
\* words or digit strings (and one camel-case name, first letter y), on
\* which String.prototype.localeCompare and the code-unit comparison of the
\* default Array.prototype.sort agree.
Lexicon ==
  << "2020", "2024", "artist", "audio_features", "creep", "criteria",
     "end", "energetic", "genre", "genres", "happy", "indie", "medium",
     "medium_term", "mood", "playlist", "pop", "radiohead", "rock",
     "similar_artists", "slow", "song_analysis", "start", "tempo",
     "timeRange", "title", "track1", "trackId", "trend", "type",
     "user_taste_analysis", "yearRange" >>

Rank(s) == CHOOSE i \in 1..Len(Lexicon) : Lexicon[i] = s

\* a.localeCompare(b) < 0
LocaleLess(a, b) == Rank(a) < Rank(b)

\* the comparison of Array.prototype.sort without a comparator: by the
\* UTF-16 code units of the elements converted to strings
CodeUnitLess(a, b) == Rank(a) < Rank(b)

\* [...value].sort(): insertion into a sorted array
RECURSIVE InsertElement(_, _)
InsertElement(x, s) ==
  IF s = << >> THEN << x >>
  ELSE IF CodeUnitLess(x, Head(s)) THEN << x >> \o s
  ELSE << Head(s) >> \o InsertElement(x, Tail(s))

\* [...value].sort()
RECURSIVE SortArray(_)
SortArray(a) ==
  IF a = << >> THEN << >>
  ELSE InsertElement(a[Len(a)], SortArray(SubSeq(a, 1, Len(a) - 1)))

\* ([a], [b]) => a.localeCompare(b)
EntryLess(e, f) == LocaleLess(e[1], f[1])

\* insertion into a sorted list of entries
RECURSIVE InsertEntry(_, _)
InsertEntry(x, s) ==
  IF s = << >> THEN << x >>
  ELSE IF EntryLess(x, Head(s)) THEN << x >> \o s
  ELSE << Head(s) >> \o InsertEntry(x, Tail(s))

\* Object.entries(o).sort(([a], [b]) => a.localeCompare(b))
RECURSIVE SortEntries(_)
SortEntries(o) ==
  IF o = << >> THEN << >>
  ELSE InsertEntry(o[Len(o)], SortEntries(SubSeq(o, 1, Len(o) - 1)))

RECURSIVE JoinTokens(_)
JoinTokens(parts) ==
  IF parts = << >> THEN << >>
  ELSE IF Len(parts) = 1 THEN parts[1]
  ELSE parts[1] \o << "," >> \o JoinTokens(Tail(parts))

\* JSON.stringify: properties in insertion order, array elements in index
\* order
RECURSIVE Stringify(_)
Stringify(x) ==
  IF x.k = "s" THEN << x.v >>
  ELSE IF x.k = "a"
    THEN << "[" >> \o JoinTokens([i \in 1..Len(x.v) |-> << x.v[i] >>])
         \o << "]" >>
  ELSE << "{" >>
       \o JoinTokens([i \in 1..Len(x.v) |->
                        << x.v[i][1], ":" >> \o Stringify(x.v[i][2])])
       \o << "}" >>

\* crypto.createHash("sha256").update(s).digest("hex")
Sha256(s) == s

\* generateCacheKey that serializes the criteria as they were written
generateCacheKey_Unsorted(criteria) == Sha256(Stringify(criteria))

\* Object.entries(x) throws a TypeError when x is null or undefined
ObjectEntriesThrows(x) == x = Null \/ x = Str(Undefined)

\* what generateCacheKey yields when it throws, in place of a digest
TypeError == << "TypeError" >>

\* generateCacheKey with the kind left out of the digest
generateCacheKey_NoType(criteria) ==
  IF ObjectEntriesThrows(criteria) THEN TypeError ELSE
  LET entries == SelectSeq(SortEntries(criteria.v), LAMBDA e : e[1] # "type")
      sortedCriteria ==
        [i \in 1..Len(entries) |->
           IF IsArr(entries[i][2])
             THEN << entries[i][1], Arr(SortArray(entries[i][2].v)) >>
             ELSE entries[i]]
  IN  Sha256(Stringify(Obj(sortedCriteria)))

\* CacheService.generateCacheKey: the properties of the argument sorted by
\* name, each array-valued property sorted, every other value kept as it is
generateCacheKey(criteria) ==
  IF ObjectEntriesThrows(criteria) THEN TypeError ELSE
  LET entries == SortEntries(criteria.v)
      sortedCriteria ==
        [i \in 1..Len(entries) |->
           IF IsArr(entries[i][2])
             THEN << entries[i][1], Arr(SortArray(entries[i][2].v)) >>
             ELSE entries[i]]
  IN  Sha256(Stringify(Obj(sortedCriteria)))

----------------------------------------------------------------------------
(* The keys and values the operations are called with *)

CritRockIndie ==
  Obj(<< << "genres", Arr(<< "rock", "indie" >>) >>,
         << "mood", Str("energetic") >> >>)
CritIndieRock ==
  Obj(<< << "genres", Arr(<< "indie", "rock" >>) >>,
         << "mood", Str("energetic") >> >>)
CritMoodFirst ==
  Obj(<< << "mood", Str("energetic") >>,
         << "genres", Arr(<< "rock", "indie" >>) >> >>)
CritMoodFirstIndieRock ==
  Obj(<< << "mood", Str("energetic") >>,
         << "genres", Arr(<< "indie", "rock" >>) >> >>)
CritYears ==
  Obj(<< << "genres", Arr(<< "rock", "indie" >>) >>,
         << "yearRange", Obj(<< << "start", Str("2020") >>,
                                << "end", Str("2024") >> >>) >> >>)
CritYearsSwapped ==
  Obj(<< << "yearRange", Obj(<< << "end", Str("2024") >>,
                                << "start", Str("2020") >> >>) >>,
         << "genres", Arr(<< "indie", "rock" >>) >> >>)
CritPop == Obj(<< << "genres", Arr(<< "pop" >>) >> >>)

\* the object literal { type, criteria }
CacheKey(type, criteria) ==
  Obj(<< << "type", Str(type) >>, << "criteria", criteria >> >>)
\* the object literal { criteria, type }
CacheKeyRev(type, criteria) ==
  Obj(<< << "criteria", criteria >>, << "type", Str(type) >> >>)

\* criteria passed directly as the key
FlatKeys == { CritRockIndie, CritMoodFirstIndieRock }

\* the object literal { type }, a key without criteria
KeyNoCriteria == Obj(<< << "type", Str("playlist") >> >>)

\* keys that are not of the form { type, criteria }
MalformedKeys == { Null, Str(Undefined), KeyNoCriteria }

\* The keys one client of the cache uses: each family holds a key, a
\* reordering of it and a key of another entry.
KeyFamilies ==
  { { CacheKey("playlist", CritRockIndie), CacheKey("playlist", CritIndieRock),
      CacheKey("song_analysis", CritRockIndie) },
    { CacheKey("playlist", CritRockIndie), CacheKey("playlist", CritMoodFirst),
      CacheKeyRev("playlist", CritRockIndie) },
    { CacheKey("playlist", CritYears), CacheKey("playlist", CritYearsSwapped),
      CacheKey("playlist", CritPop) },
    FlatKeys \cup { CacheKey("playlist", CritRockIndie) },
    MalformedKeys \cup { CacheKey("playlist", CritRockIndie) } }

----------------------------------------------------------------------------
(* The requests made to PlaylistGenius *)

Request(m, crit) == [m |-> m, crit |-> crit]

\* analyzeSong(title, artist): criteria: { title, artist }
CritSong ==
  Obj(<< << "title", Str("creep") >>, << "artist", Str("radiohead") >> >>)
\* findSimilarArtists(artist): criteria: { artist }
CritArtist == Obj(<< << "artist", Str("radiohead") >> >>)
\* analyzeMusicTrend(genre): criteria: { genre }
CritGenre == Obj(<< << "genre", Str("rock") >> >>)
\* analyzeUserTaste(timeRange): criteria: { timeRange }
CritTimeRange == Obj(<< << "timeRange", Str("medium_term") >> >>)
\* generatePersonalizedPlaylist: the criteria built from an analysis, and
\* from the default analysis (no genres, every share 0)
CritPersonal ==
  Obj(<< << "genres", Arr(<< "rock" >>) >>, << "tempo", Str("medium") >>,
         << "mood", Str("energetic") >> >>)
CritPersonalDefault ==
  Obj(<< << "genres", Arr(<< >>) >>, << "tempo", Str("slow") >>,
         << "mood", Str("happy") >> >>)
\* getTrackFeatures(trackId): criteria: { trackId }
CritTrack == Obj(<< << "trackId", Str("track1") >> >>)

\* the fixed kind tag of each memoized method
Kind(m) ==
  CASE m = "generatePlaylistSuggestions" -> "playlist"
    [] m = "analyzeSong" -> "song_analysis"
    [] m = "findSimilarArtists" -> "similar_artists"
    [] m = "analyzeMusicTrend" -> "trend"
    [] m = "analyzeUserTaste" -> "user_taste_analysis"
    [] m = "generatePersonalizedPlaylist" -> "user_taste_analysis"
    [] m = "generateEnhancedPlaylist" -> "playlist"

\* the key a request is looked up and stored under
KeyOf(r) == CacheKey(Kind(r.m), r.crit)

\* the key of getTrackFeatures
FeaturesKey == CacheKey("audio_features", CritTrack)

\* The requests one client makes: each family holds two requests.
RequestFamilies ==
  { { Request("generatePlaylistSuggestions", CritRockIndie),
      Request("generatePlaylistSuggestions", CritIndieRock) },
    { Request("analyzeSong", CritSong),
      Request("analyzeMusicTrend", CritGenre) },
    { Request("findSimilarArtists", CritArtist),
      Request("generatePlaylistSuggestions", CritPop) },
    { Request("analyzeUserTaste", CritTimeRange),
      Request("analyzeSong", CritSong) } }

\* the methods of PlaylistGenius that use the SpotifyService, as one client
\* calls them
FacadeFamilies ==
  { { Request("generateEnhancedPlaylist", CritPop),
      Request("generatePlaylistSuggestions", CritPop) },
    { Request("generatePersonalizedPlaylist", CritTimeRange),
      Request("analyzeUserTaste", CritTimeRange) },
    { Request("saveToSpotify", Obj(<< >>)),
      Request("getSpotifyAuthUrl", Obj(<< >>)),
      Request("handleSpotifyAuth", Obj(<< >>)),
      Request("setSpotifyTokens", Obj(<< >>)),
      Request("refreshSpotifyTokens", Obj(<< >>)),
      Request("analyzeSong", CritSong) } }

AllRequests == UNION (RequestFamilies \cup FacadeFamilies)

\* the requests whose method reads the cache
KeyedRequests == { r \in AllRequests : r.crit # Obj(<< >>) }

AllKeys ==
  UNION KeyFamilies \cup { KeyOf(r) : r \in KeyedRequests } \cup { FeaturesKey }
    \cup { CacheKey("playlist", CritPersonal),
           CacheKey("playlist", CritPersonalDefault) }

\* const key = this.generateCacheKey(criteria), tabulated over the keys
Digest == [key \in AllKeys |-> generateCacheKey(key)]

Values == { "v1", "v2" }

----------------------------------------------------------------------------
(* State *)

VARIABLES
  data,       \* NodeCache.data: digest -> [v: stored value, t: expiry time]
  hits,       \* NodeCache.stats.hits
  misses,     \* NodeCache.stats.misses
  now,        \* Date.now(), in clock units
  nextCheck,  \* the time the pending checkperiod timer is due
  last,       \* the last CacheService operation and what it returned
  keys,       \* the keys a direct client of the cache uses (an input)
  requests,   \* the requests a client of PlaylistGenius makes (an input)
  spotify,    \* PlaylistGenius.spotifyService is defined
  calls,      \* the calls of PlaylistGenius methods, one per slot
  invoked,    \* the number of calls made so far
  tokenExpirationTime,  \* SpotifyService.tokenExpirationTime
  retryCount,           \* SpotifyService.retryCount
  refreshToken,         \* spotify.getRefreshToken()
  accessToken,          \* spotify.getAccessToken()
  reqs        \* the calls of SpotifyService methods, one per slot

cacheVars == << data, hits, misses, now, nextCheck, last >>
tokenVars == << tokenExpirationTime, retryCount, refreshToken, accessToken,
               reqs >>
clientVars == << keys, requests, spotify, calls, invoked,
                 tokenExpirationTime, retryCount, refreshToken, accessToken,
               reqs >>
vars == << data, hits, misses, now, nextCheck, last,
           keys, requests, spotify, calls, invoked,
           tokenExpirationTime, retryCount, refreshToken, accessToken,
               reqs >>

NoKey == Obj(<< >>)
Op(op, key, val, res) == [op |-> op, key |-> key, val |-> val, res |-> res]

----------------------------------------------------------------------------
(* node-cache, as configured by the CacheService constructor               *)
(* (deleteOnExpire is the library default, useClones is false)             *)

\* NodeCache.del on a table
Del(dt, d) == [x \in DOMAIN dt \ {d} |-> dt[x]]

\* an entry counted as invalid from the very instant of its expiry time
Expired_AtDeadline(e, time) == e.t # 0 /\ e.t <= time

\* NodeCache._check: an entry is invalid once its expiry time is in the past
Expired(e, time) == e.t # 0 /\ e.t < time

\* NodeCache._wrap with the default ttl
Wrap(v, time) == [v |-> v, t |-> time + StdTTL]

\* NodeCache.stats.keys; kept equal to the number of properties of data by
\* set, del and flushAll
statsKeys == Cardinality(DOMAIN data)

\* NodeCache.get: the value returned
NodeGetValue(d) ==
  IF d \in DOMAIN data /\ ~Expired(data[d], now) THEN data[d].v
  ELSE Undefined

\* NodeCache.get: the table afterwards (an expired entry is deleted)
NodeGetData(d) ==
  IF d \in DOMAIN data /\ Expired(data[d], now) THEN Del(data, d) ELSE data

\* NodeCache.set throws ECACHEFULL before it looks at the key
NodeSetThrows == MaxKeys > -1 /\ statsKeys >= MaxKeys

\* NodeCache.set: the table afterwards
NodeSetData(d, v) ==
  IF NodeSetThrows THEN data
  ELSE [x \in DOMAIN data \cup {d} |-> IF x = d THEN Wrap(v, now) ELSE data[x]]

\* NodeCache._checkData: every expired entry is deleted
Sweep(dt, time) ==
  [x \in {y \in DOMAIN dt : ~Expired(dt[y], time)} |-> dt[x]]

----------------------------------------------------------------------------
(* CacheService *)

\* CacheService.get(key), as a function of the current state
CacheGet(key) == NodeGetValue(Digest[key])

\* a get that counts the lookup of an entry not yet swept as a hit, expired
\* or not
getEffect_StaleHit(key) ==
  LET d == Digest[key]
      r == NodeGetValue(d)
  IN  IF d = TypeError
        THEN /\ last' = Op("get", key, Undefined, "TypeError")
             /\ UNCHANGED << data, hits, misses >>
        ELSE /\ data' = NodeGetData(d)
             /\ hits' = IF d \in DOMAIN data THEN hits + 1 ELSE hits
             /\ misses' = IF d \notin DOMAIN data THEN misses + 1 ELSE misses
             /\ last' = Op("get", key, Undefined, r)

\* CacheService.get(key): what it does to the cache
getEffect(key) ==
  LET d == Digest[key]
      r == NodeGetValue(d)
  IN  IF d = TypeError
        THEN /\ last' = Op("get", key, Undefined, "TypeError")
             /\ UNCHANGED << data, hits, misses >>
        ELSE /\ data' = NodeGetData(d)
             /\ hits' = IF r # Undefined THEN hits + 1 ELSE hits
             /\ misses' = IF r = Undefined THEN misses + 1 ELSE misses
             /\ last' = Op("get", key, Undefined, r)

\* CacheService.set(key, v): what it does to the cache
setEffect(key, v) ==
  IF Digest[key] = TypeError
    THEN /\ last' = Op("set", key, v, "TypeError")
         /\ UNCHANGED data
    ELSE /\ data' = NodeSetData(Digest[key], v)
         /\ last' = Op("set", key, v,
                       IF NodeSetThrows THEN "ECACHEFULL" ELSE "ok")

get(key) ==
  /\ hits + misses < MaxStat
  /\ getEffect(key)
  /\ UNCHANGED << now, nextCheck >>
  /\ UNCHANGED clientVars

set(key, v) ==
  /\ setEffect(key, v)
  /\ UNCHANGED << hits, misses, now, nextCheck >>
  /\ UNCHANGED clientVars

invalidate(key) ==
  /\ IF Digest[key] = TypeError
       THEN /\ last' = Op("invalidate", key, Undefined, "TypeError")
            /\ UNCHANGED data
       ELSE /\ data' = Del(data, Digest[key])
            /\ last' = Op("invalidate", key, Undefined, "ok")
  /\ UNCHANGED << hits, misses, now, nextCheck >>
  /\ UNCHANGED clientVars

\* a clear that empties the table and keeps the statistics
clear_KeepStats ==
  /\ data' = << >>
  /\ nextCheck' = now + CheckPeriod
  /\ last' = Op("clear", NoKey, Undefined, "ok")
  /\ UNCHANGED << hits, misses, now >>
  /\ UNCHANGED clientVars

\* a clear that removes the expired entries only
clear_ExpiredOnly ==
  /\ data' = Sweep(data, now)
  /\ hits' = 0
  /\ misses' = 0
  /\ nextCheck' = now + CheckPeriod
  /\ last' = Op("clear", NoKey, Undefined, "ok")
  /\ UNCHANGED now
  /\ UNCHANGED clientVars

\* CacheService.clear, also reached through PlaylistGenius.clearCache:
\* NodeCache.flushAll resets the table and the statistics and restarts the
\* checkperiod timer
clear ==
  /\ data' = << >>
  /\ hits' = 0
  /\ misses' = 0
  /\ nextCheck' = now + CheckPeriod
  /\ last' = Op("clear", NoKey, Undefined, "ok")
  /\ UNCHANGED now
  /\ UNCHANGED clientVars

\* the clock advances
Tick ==
  /\ now < MaxTime
  /\ now' = now + 1
  /\ last' = Op("tick", NoKey, Undefined, "ok")
  /\ UNCHANGED << data, hits, misses, nextCheck >>
  /\ UNCHANGED clientVars

\* the checkperiod timer fires
checkData ==
  /\ now >= nextCheck
  /\ data' = Sweep(data, now)
  /\ nextCheck' = now + CheckPeriod
  /\ last' = Op("checkData", NoKey, Undefined, "ok")
  /\ UNCHANGED << hits, misses, now >>
  /\ UNCHANGED clientVars

\* new CacheService(options)
CacheInit ==
  /\ data = << >>
  /\ hits = 0
  /\ misses = 0
  /\ now = 0
  /\ nextCheck = CheckPeriod
  /\ last = Op("new", NoKey, Undefined, "ok")

----------------------------------------------------------------------------
(* PlaylistGenius: the memoized methods.  A call runs without interruption *)
(* from one await to the next; the outcome of each awaited upstream        *)
(* request is an input.                                                    *)

Slots == { 1, 2 }

NoRequest == Request("none", NoKey)

\* id: the ordinal of the call; pc: where the call is; req: its arguments;
\* out: the value it returned or the message of the error it threw; err:
\* the error it caught; n: the upstream requests it issued
\* spotifyTracks of the result of generateEnhancedPlaylist when the property
\* is not set
Absent == << Undefined >>

Call(id, pc, req, out, err, n) ==
  [id |-> id, pc |-> pc, req |-> req, out |-> out, err |-> err, n |-> n,
   search |-> << >>, tracks |-> Absent]

IdleCall == Call(0, "idle", NoRequest, Undefined, "none", 0)

Settled(c) == calls[c].pc \in { "idle", "returned", "rejected" }

\* the methods that start with analyzeUserTaste
TasteMethods == { "analyzeUserTaste", "generatePersonalizedPlaylist" }

\* the methods Invoke starts
InvokeMethods ==
  { "generatePlaylistSuggestions", "analyzeSong", "findSimilarArtists",
    "analyzeMusicTrend" } \cup TasteMethods

\* where a call is when the method it started with has returned:
\* generatePersonalizedPlaylist goes on after its await of analyzeUserTaste
AfterReturn(m) ==
  IF m = "generatePersonalizedPlaylist" THEN "taste" ELSE "returned"

Returned(c, out) ==
  calls' = [calls EXCEPT ![c] =
     [@ EXCEPT !.pc = AfterReturn(calls[c].req.m), !.out = out]]

\* a call of generatePlaylistSuggestions catches every error and throws its
\* own; the other methods let the error through
Rejected(c, error) ==
  calls' = [calls EXCEPT ![c] =
     [@ EXCEPT !.pc = "rejected", !.err = error,
               !.out = IF calls[c].req.m = "generatePlaylistSuggestions"
                         THEN "Failed to generate playlist suggestions"
                         ELSE error]]

Awaiting(c, pc) ==
  calls' = [calls EXCEPT ![c] = [@ EXCEPT !.pc = pc, !.n = @ + 1]]

DefaultAnalysis == "default"

\* the upstream answers: the call with ordinal i is answered with a result
\* of its own, so that a stored result and a fresh one can be told apart
Results == [i \in 1..MaxInvocations |-> "result" \o ToString(i)]
AllResults == { Results[i] : i \in 1..MaxInvocations }

NotEnabled == "Spotify integration not enabled"

\* a miss served by the request another call of the same method with the
\* same arguments already has in flight
MissCall_Coalesced(c, r) ==
  IF \E c2 \in Slots \ {c} : calls[c2].req = r /\ ~Settled(c2)
    THEN Call(invoked + 1, "fetch", r, Undefined, "none", 0)
    ELSE Call(invoked + 1,
              IF r.m \in TasteMethods THEN "topTracks" ELSE "fetch",
              r, Undefined, "none", 1)

\* the call after a miss: it issues its own upstream request and awaits it
MissCall(c, r) ==
  Call(invoked + 1, IF r.m \in TasteMethods THEN "topTracks" ELSE "fetch",
       r, Undefined, "none", 1)

\* generatePlaylistSuggestions, analyzeSong, findSimilarArtists,
\* analyzeMusicTrend and analyzeUserTaste up to their first await: the cache
\* is read and, on a miss, the first upstream request is issued
Invoke(c, r) ==
  /\ r.m \in InvokeMethods
  /\ Settled(c)
  /\ invoked < MaxInvocations
  /\ invoked' = invoked + 1
  /\ UNCHANGED << now, nextCheck, keys, requests, spotify >>
  /\ UNCHANGED tokenVars
  /\ LET cached == CacheGet(KeyOf(r))
     IN  IF r.m \in TasteMethods /\ ~spotify
           THEN /\ calls' = [calls EXCEPT ![c] =
                     Call(invoked + 1, "rejected", r, NotEnabled, NotEnabled, 0)]
                /\ UNCHANGED << data, hits, misses, last >>
           ELSE /\ getEffect(KeyOf(r))
                /\ calls' = [calls EXCEPT ![c] =
                     IF cached # Undefined
                       THEN Call(invoked + 1, AfterReturn(r.m), r, cached,
                                 "none", 0)
                       ELSE MissCall(c, r)]

\* the awaited request of getPlaylistSuggestions, analyzeSong, analyzeTrend
\* or analyzeArtist resolves with v
FetchResolves(c, v) ==
  /\ calls[c].pc = "fetch"
  /\ v = Results[calls[c].id]
  /\ UNCHANGED << now, nextCheck, keys, requests, spotify, invoked >>
  /\ UNCHANGED tokenVars
  /\ IF calls[c].req.m = "findSimilarArtists"
       THEN /\ Awaiting(c, "similar")
            /\ UNCHANGED << data, hits, misses, last >>
       ELSE /\ setEffect(KeyOf(calls[c].req), v)
            /\ UNCHANGED << hits, misses >>
            /\ IF NodeSetThrows THEN Rejected(c, "ECACHEFULL")
                                ELSE Returned(c, v)

\* the awaited request rejects and is issued once more
FetchRejects_Retry(c) ==
  /\ calls[c].pc \in { "fetch", "similar" }
  /\ IF calls[c].n < 2 THEN Awaiting(c, calls[c].pc)
                       ELSE Rejected(c, "upstream")
  /\ UNCHANGED cacheVars
  /\ UNCHANGED << keys, requests, spotify, invoked >>
  /\ UNCHANGED tokenVars

\* the awaited request rejects
FetchRejects(c) ==
  /\ calls[c].pc \in { "fetch", "similar" }
  /\ Rejected(c, "upstream")
  /\ UNCHANGED cacheVars
  /\ UNCHANGED << keys, requests, spotify, invoked >>
  /\ UNCHANGED tokenVars

\* findSimilarArtists: the analyses of the similar artists resolve
SimilarResolves(c, v) ==
  /\ calls[c].pc = "similar"
  /\ v = Results[calls[c].id]
  /\ setEffect(KeyOf(calls[c].req), v)
  /\ IF NodeSetThrows THEN Rejected(c, "ECACHEFULL") ELSE Returned(c, v)
  /\ UNCHANGED << hits, misses, now, nextCheck >>
  /\ UNCHANGED << keys, requests, spotify, invoked >>
  /\ UNCHANGED tokenVars

\* analyzeUserTaste: getUserTopTracks settles. With a track, getTrackFeatures
\* reads the cache and asks the platform on a miss.
TopTracksSettles(c, outcome) ==
  /\ calls[c].pc = "topTracks"
  /\ UNCHANGED << now, nextCheck, keys, requests, spotify, invoked >>
  /\ UNCHANGED tokenVars
  /\ IF outcome \in { "rejects", "empty" }
       THEN /\ Returned(c, DefaultAnalysis)
            /\ UNCHANGED << data, hits, misses, last >>
       ELSE /\ getEffect(FeaturesKey)
            /\ IF CacheGet(FeaturesKey) # Undefined
                 THEN Awaiting(c, "genres")
                 ELSE Awaiting(c, "features")

\* analyzeUserTaste: the audio features request settles; getTrackFeatures
\* stores the features
FeaturesSettle(c, outcome) ==
  /\ calls[c].pc = "features"
  /\ UNCHANGED << now, nextCheck, keys, requests, spotify, invoked >>
  /\ UNCHANGED tokenVars
  /\ IF outcome = "rejects"
       THEN /\ Returned(c, DefaultAnalysis)
            /\ UNCHANGED << data, hits, misses, last >>
       ELSE /\ setEffect(FeaturesKey, "features")
            /\ UNCHANGED << hits, misses >>
            /\ IF NodeSetThrows THEN Returned(c, DefaultAnalysis)
                                ELSE Awaiting(c, "genres")

\* analyzeUserTaste: extractGenresFromTracks settles (it never rejects) and
\* the analysis v is returned
GenresSettle(c, v) ==
  /\ calls[c].pc = "genres"
  /\ v = Results[calls[c].id]
  /\ Returned(c, v)
  /\ UNCHANGED cacheVars
  /\ UNCHANGED << keys, requests, spotify, invoked >>
  /\ UNCHANGED tokenVars

----------------------------------------------------------------------------
(* SpotifyService: the token and the retries.  The clock unit is the       *)
(* lifetime of a token; the back-off timers of a few seconds fire at any   *)
(* later instant.  The outcome of every request to the platform is an      *)
(* input.                                                                  *)

MAX_RETRIES == 3

\* data.body["expires_in"], in clock units
ExpiresIn == { 1 }

\* the body of the platform's answer to spotify.refreshAccessToken()
Bodies == { [access_token |-> "access1", expires_in |-> e] : e \in ExpiresIn }

\* SpotifyAuthTokens
Tokens(a, r, e) == [accessToken |-> a, refreshToken |-> r, expiresIn |-> e]

NoTokens == Tokens(Undefined, Undefined, 0)

\* the tokens of the authorization code grant, passed to setTokens
GrantedTokens == { Tokens("access0", "refresh0", e) : e \in ExpiresIn }

\* the methods of SpotifyService one client calls
SpotifyMethod(m) == Request(m, NoKey)

SpotifyFamilies ==
  { { SpotifyMethod("getTrackFeatures") },
    { SpotifyMethod("makeSpotifyRequest"), SpotifyMethod("searchTracks"),
      SpotifyMethod("getArtist") },
    { SpotifyMethod("makeSpotifyRequest"), SpotifyMethod("refreshAccessToken") } }

Uses(m) == SpotifyMethod(m) \in requests

\* an entry another user of the same CacheService stores
SongKey == CacheKey("song_analysis", CritSong)

\* a value a method returns
Resolved(v) == [value |-> v]

NoOut == Resolved(Undefined)

\* the argument of getArtist
ArtistIds == { "artist1", "artist2" }

\* SpotifyApi.ArtistObjectFull, the properties the placeholder sets
Artist(id, name, uri, genres, images, popularity, followersTotal) ==
  [id |-> id, name |-> name, uri |-> uri, genres |-> genres,
   images |-> images, popularity |-> popularity,
   followers |-> [total |-> followersTotal]]

\* response.body of spotify.getArtist(artistId)
ArtistBody(artistId) ==
  Artist(artistId, "name of " \o artistId, "spotify:artist:" \o artistId,
         << "rock" >>, << "image" >>, 50, 1000)

\* the object getArtist returns from its catch
PlaceholderArtist(artistId) ==
  Artist(artistId, "", "spotify:artist:" \o artistId, << >>, << >>, 0, 0)

\* via: the method called; arg: its argument (getArtist); pc: where the call
\* is; n: how often it has invoked its request; err: the error it threw;
\* out: what it returned; tokens: the tokens it returned
Req(via, arg, pc, n, err) ==
  [via |-> via, arg |-> arg, pc |-> pc, n |-> n, err |-> err,
   out |-> NoOut, tokens |-> NoTokens]

IdleReq == Req("none", Undefined, "idle", 0, "none")

Finished(p) == reqs[p].pc \in { "idle", "done", "failed" }

\* ensureValidToken from its first line to its first await, followed by the
\* caller's request() when the token is valid.  Without a refresh token the
\* error thrown inside the try block is caught by ensureValidToken itself.
ensureValidToken(p, via, n, arg) ==
  IF now >= tokenExpirationTime
    THEN IF refreshToken # Undefined
           THEN /\ reqs' = [reqs EXCEPT ![p] = Req(via, arg, "refreshing", n, "none")]
                /\ UNCHANGED retryCount
           ELSE IF retryCount < MAX_RETRIES
             THEN /\ retryCount' = retryCount + 1
                  /\ reqs' = [reqs EXCEPT ![p] = Req(via, arg, "tokenSleep", n, "none")]
             ELSE /\ reqs' = [reqs EXCEPT ![p] =
                       Req(via, arg, "failed", n, "Authentication required")]
                  /\ UNCHANGED retryCount
    ELSE /\ reqs' = [reqs EXCEPT ![p] = Req(via, arg, "requesting", n + 1, "none")]
         /\ UNCHANGED retryCount

\* a call of makeSpotifyRequest(request), as made by getUserTopTracks and
\* getNewUserRecommendations
makeSpotifyRequest(p) ==
  /\ Uses("makeSpotifyRequest")
  /\ Finished(p)
  /\ ensureValidToken(p, "makeSpotifyRequest", 0, Undefined)
  /\ UNCHANGED << tokenExpirationTime, refreshToken, accessToken >>
  /\ UNCHANGED cacheVars
  /\ UNCHANGED << keys, requests, spotify, calls, invoked >>

\* a call of searchTracks(query): ensureValidToken is called directly
searchTracks(p) ==
  /\ Uses("searchTracks")
  /\ Finished(p)
  /\ ensureValidToken(p, "searchTracks", 0, Undefined)
  /\ UNCHANGED << tokenExpirationTime, refreshToken, accessToken >>
  /\ UNCHANGED cacheVars
  /\ UNCHANGED << keys, requests, spotify, calls, invoked >>

\* a call of getArtist(artistId): ensureValidToken is called before the try
getArtist(p, artistId) ==
  /\ Uses("getArtist")
  /\ Finished(p)
  /\ ensureValidToken(p, "getArtist", 0, artistId)
  /\ UNCHANGED << tokenExpirationTime, refreshToken, accessToken >>
  /\ UNCHANGED cacheVars
  /\ UNCHANGED << keys, requests, spotify, calls, invoked >>

\* a call of getTrackFeatures(trackId): the cache is read and, on a miss,
\* ensureValidToken is called directly
getTrackFeatures(p) ==
  /\ Uses("getTrackFeatures")
  /\ Finished(p)
  /\ hits + misses < MaxStat
  /\ getEffect(FeaturesKey)
  /\ IF CacheGet(FeaturesKey) # Undefined
       THEN /\ reqs' = [reqs EXCEPT ![p] =
                 [Req("getTrackFeatures", Undefined, "done", 0, "none")
                    EXCEPT !.out = Resolved(CacheGet(FeaturesKey))]]
            /\ UNCHANGED retryCount
       ELSE ensureValidToken(p, "getTrackFeatures", 0, Undefined)
  /\ UNCHANGED << tokenExpirationTime, refreshToken, accessToken >>
  /\ UNCHANGED << now, nextCheck >>
  /\ UNCHANGED << keys, requests, spotify, calls, invoked >>

\* a call of the public refreshAccessToken(): the platform is asked at once
refreshAccessToken(p) ==
  /\ Uses("refreshAccessToken")
  /\ Finished(p)
  /\ reqs' = [reqs EXCEPT ![p] = Req("refreshAccessToken", Undefined, "refreshing", 0,
                                      "none")]
  /\ UNCHANGED << tokenExpirationTime, retryCount, refreshToken, accessToken >>
  /\ UNCHANGED cacheVars
  /\ UNCHANGED << keys, requests, spotify, calls, invoked >>

\* a truthy string
Truthy(s) == s \notin { Undefined, "" }

\* setTokens without the test of tokens.refreshToken
setTokensEffect_AlwaysSetsRefresh(tokens) ==
  /\ accessToken' = tokens.accessToken
  /\ refreshToken' = tokens.refreshToken
  /\ tokenExpirationTime' = now + tokens.expiresIn

\* the assignments of setTokens(tokens)
setTokensEffect(tokens) ==
  /\ accessToken' = tokens.accessToken
  /\ refreshToken' = IF Truthy(tokens.refreshToken)
                       THEN tokens.refreshToken
                       ELSE refreshToken
  /\ tokenExpirationTime' = now + tokens.expiresIn

\* spotify.refreshAccessToken() resolves with the given body.  In
\* ensureValidToken the retry counter is reset and the caller's request()
\* follows; the public refreshAccessToken() passes the new access token, the
\* stored refresh token (or "") and the lifetime to setTokens and returns
\* them.
RefreshResolves(p, body) ==
  /\ reqs[p].pc = "refreshing"
  /\ reqs[p].n < MaxAttempts
  /\ IF reqs[p].via = "refreshAccessToken"
       THEN LET tokens == Tokens(body.access_token,
                                 IF Truthy(refreshToken) THEN refreshToken ELSE "",
                                 body.expires_in)
            IN  /\ setTokensEffect(tokens)
                /\ reqs' = [reqs EXCEPT ![p] =
                     [@ EXCEPT !.pc = "done", !.tokens = tokens]]
                /\ UNCHANGED retryCount
       ELSE /\ accessToken' = body.access_token
            /\ tokenExpirationTime' = now + body.expires_in
            /\ retryCount' = 0
            /\ reqs' = [reqs EXCEPT ![p] =
                 [@ EXCEPT !.pc = "requesting", !.n = @ + 1]]
            /\ UNCHANGED refreshToken
  /\ UNCHANGED cacheVars
  /\ UNCHANGED << keys, requests, spotify, calls, invoked >>

\* RefreshRejects with the error of the refresh swallowed by
\* ensureValidToken: the caller's request() follows
RefreshRejects_Swallowed(p, status) ==
  /\ reqs[p].pc = "refreshing"
  /\ reqs[p].n < MaxAttempts
  /\ reqs' = [reqs EXCEPT ![p] =
       IF reqs[p].via = "refreshAccessToken"
         THEN [@ EXCEPT !.pc = "failed",
                        !.err = "Failed to refresh Spotify token"]
         ELSE [@ EXCEPT !.pc = "requesting", !.n = @ + 1]]
  /\ UNCHANGED << tokenExpirationTime, retryCount, refreshToken, accessToken >>
  /\ UNCHANGED cacheVars
  /\ UNCHANGED << keys, requests, spotify, calls, invoked >>

\* spotify.refreshAccessToken() rejects with the given status: the catch of
\* ensureValidToken retries or rethrows; the rethrown error reaches the
\* catch of makeSpotifyRequest with retryCount at MAX_RETRIES.  The public
\* refreshAccessToken() throws its own error.
RefreshRejects(p, status) ==
  /\ reqs[p].pc = "refreshing"
  /\ IF reqs[p].via = "refreshAccessToken"
       THEN /\ reqs' = [reqs EXCEPT ![p] =
                 [@ EXCEPT !.pc = "failed",
                           !.err = "Failed to refresh Spotify token"]]
            /\ UNCHANGED retryCount
       ELSE IF retryCount < MAX_RETRIES
         THEN /\ retryCount' = retryCount + 1
              /\ reqs' = [reqs EXCEPT ![p] = [@ EXCEPT !.pc = "tokenSleep"]]
         ELSE /\ reqs' = [reqs EXCEPT ![p] =
                   [@ EXCEPT !.pc = "failed", !.err = status]]
              /\ UNCHANGED retryCount
  /\ UNCHANGED << tokenExpirationTime, refreshToken, accessToken >>
  /\ UNCHANGED cacheVars
  /\ UNCHANGED << keys, requests, spotify, calls, invoked >>

\* the back-off timer of ensureValidToken or of makeSpotifyRequest fires:
\* return this.ensureValidToken(), return this.makeSpotifyRequest(request)
TimerFires(p) ==
  /\ reqs[p].pc \in { "tokenSleep", "requestSleep" }
  /\ reqs[p].n < MaxAttempts
  /\ ensureValidToken(p, reqs[p].via, reqs[p].n, reqs[p].arg)
  /\ UNCHANGED << tokenExpirationTime, refreshToken, accessToken >>
  /\ UNCHANGED cacheVars
  /\ UNCHANGED << keys, requests, spotify, calls, invoked >>

\* what the method returns when its request resolves
Response(via, arg) ==
  CASE via = "getTrackFeatures" -> Resolved("features")
    [] via = "searchTracks" -> Resolved("tracks")
    [] via = "getArtist" -> ArtistBody(arg)
    [] OTHER -> Resolved("response")

\* RequestResolves with the retry counter reset after a successful request
RequestResolves_ResetsBudget(p) ==
  /\ reqs[p].pc = "requesting"
  /\ IF reqs[p].via = "getTrackFeatures"
       THEN /\ setEffect(FeaturesKey, "features")
            /\ reqs' = [reqs EXCEPT ![p] =
                 IF NodeSetThrows
                   THEN [@ EXCEPT !.pc = "failed", !.err = "ECACHEFULL"]
                   ELSE [@ EXCEPT !.pc = "done", !.out = Resolved("features")]]
       ELSE /\ reqs' = [reqs EXCEPT ![p] =
                 [@ EXCEPT !.pc = "done", !.out = Response(reqs[p].via, reqs[p].arg)]]
            /\ UNCHANGED << data, last >>
  /\ retryCount' = 0
  /\ UNCHANGED << hits, misses, now, nextCheck >>
  /\ UNCHANGED << tokenExpirationTime, refreshToken, accessToken >>
  /\ UNCHANGED << keys, requests, spotify, calls, invoked >>

\* the request resolves; getTrackFeatures stores the features
RequestResolves(p) ==
  /\ reqs[p].pc = "requesting"
  /\ IF reqs[p].via = "getTrackFeatures"
       THEN /\ setEffect(FeaturesKey, "features")
            /\ reqs' = [reqs EXCEPT ![p] =
                 IF NodeSetThrows
                   THEN [@ EXCEPT !.pc = "failed", !.err = "ECACHEFULL"]
                   ELSE [@ EXCEPT !.pc = "done", !.out = Resolved("features")]]
       ELSE /\ reqs' = [reqs EXCEPT ![p] =
                 [@ EXCEPT !.pc = "done", !.out = Response(reqs[p].via, reqs[p].arg)]]
            /\ UNCHANGED << data, last >>
  /\ UNCHANGED << hits, misses, now, nextCheck >>
  /\ UNCHANGED << tokenExpirationTime, retryCount, refreshToken, accessToken >>
  /\ UNCHANGED << keys, requests, spotify, calls, invoked >>

\* RequestRejects with the increment of the retry counter not guarded by
\* the test against MAX_RETRIES
RequestRejects_Unguarded(p, status) ==
  /\ reqs[p].pc = "requesting"
  /\ IF /\ reqs[p].via = "makeSpotifyRequest"
        /\ status = "401"
       THEN /\ retryCount' = retryCount + 1
            /\ reqs' = [reqs EXCEPT ![p] =
                 [@ EXCEPT !.pc = IF retryCount < MAX_RETRIES
                                    THEN "requestSleep" ELSE "failed",
                           !.err = IF retryCount < MAX_RETRIES
                                     THEN "none" ELSE status]]
       ELSE /\ reqs' = [reqs EXCEPT ![p] =
                 IF reqs[p].via = "getArtist"
                   THEN [@ EXCEPT !.pc = "done", !.out = PlaceholderArtist(reqs[p].arg)]
                   ELSE [@ EXCEPT !.pc = "failed", !.err = status]]
            /\ UNCHANGED retryCount
  /\ UNCHANGED << tokenExpirationTime, refreshToken, accessToken >>
  /\ UNCHANGED cacheVars
  /\ UNCHANGED << keys, requests, spotify, calls, invoked >>

\* RequestRejects with the error of the artist lookup rethrown by getArtist
RequestRejects_Rethrows(p, status) ==
  /\ reqs[p].pc = "requesting"
  /\ IF /\ reqs[p].via = "makeSpotifyRequest"
        /\ status = "401"
        /\ retryCount < MAX_RETRIES
       THEN /\ retryCount' = retryCount + 1
            /\ reqs' = [reqs EXCEPT ![p] = [@ EXCEPT !.pc = "requestSleep"]]
       ELSE /\ reqs' = [reqs EXCEPT ![p] =
                 [@ EXCEPT !.pc = "failed", !.err = status]]
            /\ UNCHANGED retryCount
  /\ UNCHANGED << tokenExpirationTime, refreshToken, accessToken >>
  /\ UNCHANGED cacheVars
  /\ UNCHANGED << keys, requests, spotify, calls, invoked >>

\* the request rejects with the given status: the catch of
\* makeSpotifyRequest retries on 401; getTrackFeatures and searchTracks
\* rethrow; getArtist returns a placeholder artist
RequestRejects(p, status) ==
  /\ reqs[p].pc = "requesting"
  /\ IF /\ reqs[p].via = "makeSpotifyRequest"
        /\ status = "401"
        /\ retryCount < MAX_RETRIES
       THEN /\ retryCount' = retryCount + 1
            /\ reqs' = [reqs EXCEPT ![p] = [@ EXCEPT !.pc = "requestSleep"]]
       ELSE /\ reqs' = [reqs EXCEPT ![p] =
                 IF reqs[p].via = "getArtist"
                   THEN [@ EXCEPT !.pc = "done", !.out = PlaceholderArtist(reqs[p].arg)]
                   ELSE [@ EXCEPT !.pc = "failed", !.err = status]]
            /\ UNCHANGED retryCount
  /\ UNCHANGED << tokenExpirationTime, refreshToken, accessToken >>
  /\ UNCHANGED cacheVars
  /\ UNCHANGED << keys, requests, spotify, calls, invoked >>

\* SpotifyService.setTokens(tokens), called by the client
setTokens(tokens) ==
  /\ setTokensEffect(tokens)
  /\ UNCHANGED << retryCount, reqs >>
  /\ UNCHANGED cacheVars
  /\ UNCHANGED << keys, requests, spotify, calls, invoked >>

\* new SpotifyService(credentials, cacheService)
TokenInit ==
  /\ tokenExpirationTime = 0
  /\ retryCount = 0
  /\ refreshToken = Undefined
  /\ accessToken = Undefined
  /\ reqs = [p \in Slots |-> IdleReq]

----------------------------------------------------------------------------
(* PlaylistGenius: the methods that use the SpotifyService *)

\* generatePersonalizedPlaylist: the criteria built from the analysis that
\* analyzeUserTaste returned (genres: preferredGenres.slice(0, 3), tempo:
\* determinePreferredTempo, mood: determinePreferredMood)
PersonalCriteria(analysis) ==
  IF analysis = DefaultAnalysis THEN CritPersonalDefault ELSE CritPersonal

\* generatePersonalizedPlaylist resumes after its await of analyzeUserTaste
\* and returns this.generatePlaylistSuggestions(criteria): the cache is read
\* and, on a miss, the upstream request is issued
TasteResumes(c) ==
  /\ calls[c].pc = "taste"
  /\ LET r == Request("generatePlaylistSuggestions",
                      PersonalCriteria(calls[c].out))
         cached == CacheGet(KeyOf(r))
     IN  /\ getEffect(KeyOf(r))
         /\ calls' = [calls EXCEPT ![c] =
              IF cached # Undefined
                THEN Call(calls[c].id, "returned", r, cached, "none", calls[c].n)
                ELSE Call(calls[c].id, "fetch", r, Undefined, "none",
                          calls[c].n + 1)]
  /\ UNCHANGED << now, nextCheck, keys, requests, spotify, invoked >>
  /\ UNCHANGED tokenVars

\* suggestions.songs of the suggestions v; the first result has no songs
Songs == << "song1", "song2" >>

HasSongs(v) == v # Results[1]

FailedSuggestions == "Failed to generate suggestions"

\* the tracks found by the searches, in the order of the songs
Found(search) == SelectSeq(search, LAMBDA t : t # "null")

\* generateEnhancedPlaylist once generatePlaylistSuggestions has returned
\* the suggestions v to the call cl: the suggestions alone without Spotify or
\* without songs, else one track search per song
AfterSuggestions(cl, v) ==
  IF ~spotify \/ ~HasSongs(v)
    THEN [cl EXCEPT !.pc = "returned", !.out = v]
    ELSE [cl EXCEPT !.pc = "search", !.out = v, !.n = @ + Len(Songs),
                    !.search = [i \in 1..Len(Songs) |-> "pending"]]

\* generateEnhancedPlaylist(criteria) up to its first await: the cache read
\* of generatePlaylistSuggestions and, on a miss, its upstream request
generateEnhancedPlaylist(c, r) ==
  /\ r.m = "generateEnhancedPlaylist"
  /\ Settled(c)
  /\ invoked < MaxInvocations
  /\ invoked' = invoked + 1
  /\ getEffect(KeyOf(r))
  /\ calls' = [calls EXCEPT ![c] =
       IF CacheGet(KeyOf(r)) # Undefined
         THEN AfterSuggestions(Call(invoked + 1, "idle", r, Undefined, "none", 0),
                               CacheGet(KeyOf(r)))
         ELSE Call(invoked + 1, "suggestions", r, Undefined, "none", 1)]
  /\ UNCHANGED << now, nextCheck, keys, requests, spotify >>
  /\ UNCHANGED tokenVars

\* generateEnhancedPlaylist: the upstream request of
\* generatePlaylistSuggestions settles.  Its errors, the error of set
\* included, are caught by generatePlaylistSuggestions, whose own error is
\* caught by generateEnhancedPlaylist.
SuggestionsSettle(c, outcome, v) ==
  /\ calls[c].pc = "suggestions"
  /\ v = Results[calls[c].id]
  /\ IF outcome = "rejects"
       THEN /\ calls' = [calls EXCEPT ![c] =
                 [@ EXCEPT !.pc = "returned", !.out = FailedSuggestions]]
            /\ UNCHANGED << data, last >>
       ELSE /\ setEffect(KeyOf(calls[c].req), v)
            /\ calls' = [calls EXCEPT ![c] =
                 IF NodeSetThrows
                   THEN [@ EXCEPT !.pc = "returned", !.out = FailedSuggestions]
                   ELSE AfterSuggestions(calls[c], v)]
  /\ UNCHANGED << hits, misses, now, nextCheck >>
  /\ UNCHANGED << keys, requests, spotify, invoked >>
  /\ UNCHANGED tokenVars

\* SearchSettles without the try around the search of one song: the
\* rejection reaches the catch of generateEnhancedPlaylist
SearchSettles_Uncaught(c, i, outcome) ==
  /\ calls[c].pc = "search"
  /\ i \in 1..Len(calls[c].search)
  /\ calls[c].search[i] = "pending"
  /\ LET search == [calls[c].search EXCEPT ![i] =
                      IF outcome = "found" THEN "track of " \o Songs[i]
                                           ELSE "null"]
     IN  calls' = [calls EXCEPT ![c] =
           IF outcome = "rejects"
             THEN [@ EXCEPT !.pc = "returned", !.out = FailedSuggestions]
             ELSE IF \E j \in 1..Len(search) : search[j] = "pending"
               THEN [@ EXCEPT !.search = search]
               ELSE [@ EXCEPT !.search = search, !.pc = "recommendations",
                              !.n = @ + 1]]
  /\ UNCHANGED cacheVars
  /\ UNCHANGED << keys, requests, spotify, invoked >>
  /\ UNCHANGED tokenVars

\* generateEnhancedPlaylist: the search of song i settles; a search that
\* rejects or finds nothing yields no track.  When the last one has settled
\* Promise.all resolves and getRecommendations is called.
SearchSettles(c, i, outcome) ==
  /\ calls[c].pc = "search"
  /\ i \in 1..Len(calls[c].search)
  /\ calls[c].search[i] = "pending"
  /\ LET search == [calls[c].search EXCEPT ![i] =
                      IF outcome = "found" THEN "track of " \o Songs[i]
                                           ELSE "null"]
     IN  calls' = [calls EXCEPT ![c] =
           IF \E j \in 1..Len(search) : search[j] = "pending"
             THEN [@ EXCEPT !.search = search]
             ELSE [@ EXCEPT !.search = search, !.pc = "recommendations",
                            !.n = @ + 1]]
  /\ UNCHANGED cacheVars
  /\ UNCHANGED << keys, requests, spotify, invoked >>
  /\ UNCHANGED tokenVars

\* generateEnhancedPlaylist: getRecommendations settles
RecommendationsSettle(c, outcome) ==
  /\ calls[c].pc = "recommendations"
  /\ calls' = [calls EXCEPT ![c] =
       [@ EXCEPT !.pc = "returned",
                 !.tracks = IF outcome = "resolves"
                              THEN Found(calls[c].search) \o << "recommended" >>
                              ELSE Found(calls[c].search)]]
  /\ UNCHANGED cacheVars
  /\ UNCHANGED << keys, requests, spotify, invoked >>
  /\ UNCHANGED tokenVars

\* the methods that only pass the call on to the SpotifyService
FacadeMethods ==
  { "saveToSpotify", "getSpotifyAuthUrl", "handleSpotifyAuth",
    "setSpotifyTokens", "refreshSpotifyTokens" }

\* InvokeFacade with the test of this.spotifyService missing in
\* saveToSpotify
InvokeFacade_Unguarded(c, r, tokens) ==
  /\ r.m \in FacadeMethods
  /\ Settled(c)
  /\ invoked < MaxInvocations
  /\ invoked' = invoked + 1
  /\ calls' = [calls EXCEPT ![c] =
       IF ~spotify /\ r.m # "saveToSpotify"
         THEN Call(invoked + 1, "rejected", r, NotEnabled, NotEnabled, 0)
         ELSE CASE r.m = "getSpotifyAuthUrl" ->
                     Call(invoked + 1, "returned", r, "authorization url", "none", 0)
                [] r.m = "setSpotifyTokens" ->
                     Call(invoked + 1, "returned", r, Undefined, "none", 0)
                [] OTHER ->
                     Call(invoked + 1, "service", r, Undefined, "none", 1)]
  /\ IF spotify /\ r.m = "setSpotifyTokens"
       THEN /\ setTokensEffect(tokens)
            /\ UNCHANGED << retryCount, reqs >>
       ELSE UNCHANGED tokenVars
  /\ UNCHANGED cacheVars
  /\ UNCHANGED << keys, requests, spotify >>

\* saveToSpotify, getSpotifyAuthUrl, handleSpotifyAuth, setSpotifyTokens
\* and refreshSpotifyTokens up to their first await.  Without a
\* SpotifyService each throws; getSpotifyAuthUrl and setSpotifyTokens are
\* synchronous, the others await the SpotifyService.
InvokeFacade(c, r, tokens) ==
  /\ r.m \in FacadeMethods
  /\ Settled(c)
  /\ invoked < MaxInvocations
  /\ invoked' = invoked + 1
  /\ calls' = [calls EXCEPT ![c] =
       IF ~spotify
         THEN Call(invoked + 1, "rejected", r, NotEnabled, NotEnabled, 0)
         ELSE CASE r.m = "getSpotifyAuthUrl" ->
                     Call(invoked + 1, "returned", r, "authorization url", "none", 0)
                [] r.m = "setSpotifyTokens" ->
                     Call(invoked + 1, "returned", r, Undefined, "none", 0)
                [] OTHER ->
                     Call(invoked + 1, "service", r, Undefined, "none", 1)]
  /\ IF spotify /\ r.m = "setSpotifyTokens"
       THEN /\ setTokensEffect(tokens)
            /\ UNCHANGED << retryCount, reqs >>
       ELSE UNCHANGED tokenVars
  /\ UNCHANGED cacheVars
  /\ UNCHANGED << keys, requests, spotify >>

\* createPlaylist, getTokens or refreshAccessToken of the SpotifyService
\* settles: handleSpotifyAuth passes the tokens to setSpotifyTokens,
\* refreshAccessToken has passed them to setTokens itself
ServiceSettles(c, outcome, tokens) ==
  /\ calls[c].pc = "service"
  /\ IF outcome = "rejects"
       THEN /\ calls' = [calls EXCEPT ![c] =
                 [@ EXCEPT !.pc = "rejected", !.err = "service",
                           !.out = "service"]]
            /\ UNCHANGED tokenVars
       ELSE /\ calls' = [calls EXCEPT ![c] =
                 [@ EXCEPT !.pc = "returned",
                           !.out = IF calls[c].req.m = "saveToSpotify"
                                     THEN "playlist id" ELSE "tokens"]]
            /\ IF calls[c].req.m = "saveToSpotify"
                 THEN UNCHANGED tokenVars
                 ELSE /\ setTokensEffect(
                           IF calls[c].req.m = "handleSpotifyAuth"
                             THEN tokens
                             ELSE Tokens("access1",
                                         IF Truthy(refreshToken)
                                           THEN refreshToken ELSE "",
                                         tokens.expiresIn))
                      /\ UNCHANGED << retryCount, reqs >>
  /\ UNCHANGED cacheVars
  /\ UNCHANGED << keys, requests, spotify, invoked >>

----------------------------------------------------------------------------
(* Specifications *)

\* a client that uses a CacheService directly
Init ==
  /\ CacheInit
  /\ keys \in KeyFamilies
  /\ requests = { }
  /\ spotify = FALSE
  /\ calls = [c \in Slots |-> IdleCall]
  /\ invoked = 0
  /\ TokenInit

Next ==
  \/ \E key \in keys : get(key)
  \/ \E key \in keys, v \in Values : set(key, v)
  \/ \E key \in keys : invalidate(key)
  \/ clear
  \/ Tick
  \/ checkData

Spec == Init /\ [][Next]_vars

\* a client of PlaylistGenius: new PlaylistGenius(apiKey, spotifyCredentials?)
InitGenius ==
  /\ CacheInit
  /\ keys = { }
  /\ requests \in RequestFamilies
  /\ spotify \in BOOLEAN
  /\ calls = [c \in Slots |-> IdleCall]
  /\ invoked = 0
  /\ TokenInit

NextGenius ==
  \/ \E c \in Slots, r \in requests : Invoke(c, r)
  \/ \E c \in Slots, v \in AllResults : FetchResolves(c, v)
  \/ \E c \in Slots : FetchRejects(c)
  \/ \E c \in Slots, v \in AllResults : SimilarResolves(c, v)
  \/ \E c \in Slots, o \in { "tracks", "empty", "rejects" } :
       TopTracksSettles(c, o)
  \/ \E c \in Slots, o \in { "resolves", "rejects" } : FeaturesSettle(c, o)
  \/ \E c \in Slots, v \in AllResults : GenresSettle(c, v)
  \/ clear
  \/ Tick
  \/ checkData

SpecGenius == InitGenius /\ [][NextGenius]_vars

\* a client of the methods of PlaylistGenius that use the SpotifyService;
\* it awaits an analyzeUserTaste or a generatePersonalizedPlaylist before it
\* makes its next call
InitFacade ==
  /\ CacheInit
  /\ keys = { }
  /\ requests \in FacadeFamilies
  /\ spotify \in BOOLEAN
  /\ calls = [c \in Slots |-> IdleCall]
  /\ invoked = 0
  /\ TokenInit

NextFacade ==
  \/ \E c \in Slots, r \in requests :
       /\ r.m \in TasteMethods => \A c2 \in Slots : Settled(c2)
       /\ Invoke(c, r)
  \/ \E c \in Slots, v \in AllResults : FetchResolves(c, v)
  \/ \E c \in Slots : FetchRejects(c)
  \/ \E c \in Slots, o \in { "tracks", "empty", "rejects" } :
       TopTracksSettles(c, o)
  \/ \E c \in Slots, o \in { "resolves", "rejects" } : FeaturesSettle(c, o)
  \/ \E c \in Slots, v \in AllResults : GenresSettle(c, v)
  \/ \E c \in Slots : TasteResumes(c)
  \/ \E c \in Slots, r \in requests : generateEnhancedPlaylist(c, r)
  \/ \E c \in Slots, o \in { "resolves", "rejects" }, v \in AllResults :
       SuggestionsSettle(c, o, v)
  \/ \E c \in Slots, i \in 1..Len(Songs), o \in { "found", "none", "rejects" } :
       SearchSettles(c, i, o)
  \/ \E c \in Slots, o \in { "resolves", "rejects" } :
       RecommendationsSettle(c, o)
  \/ \E c \in Slots, r \in requests, tokens \in GrantedTokens :
       InvokeFacade(c, r, tokens)
  \/ \E c \in Slots, o \in { "resolves", "rejects" }, tokens \in GrantedTokens :
       ServiceSettles(c, o, tokens)
  \/ Tick
  \/ checkData

SpecFacade == InitFacade /\ [][NextFacade]_vars

\* a client of SpotifyService; beside getTrackFeatures another user of the
\* shared CacheService stores an entry
InitSpotify ==
  /\ CacheInit
  /\ requests \in SpotifyFamilies
  /\ keys = IF requests = { SpotifyMethod("getTrackFeatures") }
              THEN { SongKey }
              ELSE { }
  /\ spotify = TRUE
  /\ calls = [c \in Slots |-> IdleCall]
  /\ invoked = 0
  /\ TokenInit

NextSpotify ==
  \/ \E p \in Slots : makeSpotifyRequest(p)
  \/ \E p \in Slots : getTrackFeatures(p)
  \/ \E p \in Slots : searchTracks(p)
  \/ \E p \in Slots, artistId \in ArtistIds : getArtist(p, artistId)
  \/ \E p \in Slots : refreshAccessToken(p)
  \/ \E p \in Slots, body \in Bodies : RefreshResolves(p, body)
  \/ \E p \in Slots, st \in { "401", "500" } : RefreshRejects(p, st)
  \/ \E p \in Slots : TimerFires(p)
  \/ \E p \in Slots : RequestResolves(p)
  \/ \E p \in Slots, st \in { "401", "500" } : RequestRejects(p, st)
  \/ \E tokens \in GrantedTokens : setTokens(tokens)
  \/ \E key \in keys : set(key, "v1")
  \/ Tick
  \/ checkData

SpecSpotify == InitSpotify /\ [][NextSpotify]_vars


----------------------------------------------------------------------------
(* Key equivalence as the specification defines it (section 4.1): arrays   *)
(* sorted and mappings rebuilt with sorted keys, recursively               *)

RECURSIVE SpecNormalize(_)
SpecNormalize(x) ==
  IF x.k = "s" THEN x
  ELSE IF x.k = "a" THEN Arr(SortArray(x.v))
  ELSE LET o == [i \in 1..Len(x.v) |->
                   << x.v[i][1], SpecNormalize(x.v[i][2]) >>]
       IN  Obj(SortEntries(o))

\* every array sorted, every mapping left in its own order
RECURSIVE SortArraysOnly(_)
SortArraysOnly(x) ==
  IF x.k = "s" THEN x
  ELSE IF x.k = "a" THEN Arr(SortArray(x.v))
  ELSE Obj([i \in 1..Len(x.v) |-> << x.v[i][1], SortArraysOnly(x.v[i][2]) >>])

\* k is of the form { type, criteria } with a mapping as criteria
IsCacheKey(k) ==
  /\ Len(k.v) = 2
  /\ Field(k, "type").k = "s" /\ Field(k, "type") # Str(Undefined)
  /\ IsObj(Field(k, "criteria"))

\* k2 is k1 with the elements of array-valued fields of criteria permuted
ArrayPermuted(k1, k2) ==
  /\ IsCacheKey(k1) /\ IsCacheKey(k2)
  /\ Field(k1, "type") = Field(k2, "type")
  /\ SortArraysOnly(Field(k1, "criteria")) = SortArraysOnly(Field(k2, "criteria"))

\* k2 is k1 with the properties of criteria reordered
PropsReordered(k1, k2) ==
  /\ IsCacheKey(k1) /\ IsCacheKey(k2)
  /\ Field(k1, "type") = Field(k2, "type")
  /\ SortEntries(Field(k1, "criteria").v) = SortEntries(Field(k2, "criteria").v)

NormalForm == [key \in AllKeys |-> SpecNormalize(key)]

\* the two keys are equivalent: equal kind, criteria equal once normalized
Equivalent(k1, k2) == NormalForm[k1] = NormalForm[k2]

ArrayPermutedKeys ==
  { p \in AllKeys \X AllKeys : ArrayPermuted(p[1], p[2]) }
PropsReorderedKeys ==
  { p \in AllKeys \X AllKeys : PropsReordered(p[1], p[2]) }
EquivalentCacheKeys ==
  { p \in AllKeys \X AllKeys :
      IsCacheKey(p[1]) /\ IsCacheKey(p[2]) /\ Equivalent(p[1], p[2]) }

\* CacheService.getStats().keys
getStatsKeys == Cardinality(DOMAIN data)

\* the step is a get that directly follows a successful set
SetThenGet == last.op = "set" /\ last.res = "ok" /\ last'.op = "get"

\* the step is a set that directly follows a successful set
SetThenSet == last.op = "set" /\ last.res = "ok" /\ last'.op = "set"

----------------------------------------------------------------------------
(* C1..C4, C9, C10: the fingerprint cache *)

\* C1: set with a key followed by get with the same key whose array-valued
\* criteria fields are permuted returns the stored value.
C1_ArrayOrder ==
  [][(SetThenGet /\ << last.key, last'.key >> \in ArrayPermutedKeys)
       => last'.res = last.val]_vars

\* C2: set with a key followed by get with the same key whose criteria
\* properties are reordered returns the stored value.
C2_PropertyOrder ==
  [][(SetThenGet /\ << last.key, last'.key >> \in PropsReorderedKeys)
       => last'.res = last.val]_vars

\* C3: normalization is recursive: set with a key followed by get with a key
\* that differs in the key order of a nested mapping and in the order of
\* array elements returns the stored value.
C3_Recursive ==
  [][(SetThenGet /\ << last.key, last'.key >> \in EquivalentCacheKeys)
       => last'.res = last.val]_vars

\* C4: two keys share a digest only if they are equivalent, and a set or an
\* invalidate of a key leaves the result of get unchanged for every key that
\* is not equivalent to it.  (A key generateCacheKey throws on has no digest.)
C4_Independence ==
  [][\A k1 \in keys, k2 \in keys :
       /\ (Digest[k1] = Digest[k2] /\ Digest[k1] # TypeError)
            => Equivalent(k1, k2)
       /\ (last'.op \in {"set", "invalidate"} /\ last'.key = k1
             /\ ~Equivalent(k1, k2))
            => CacheGet(k2)' = CacheGet(k2)]_vars

\* a set succeeded while a live entry of a key that is not equivalent was in
\* the cache, and that entry is still there
C4_Witness ==
  /\ last.op = "set" /\ last.res = "ok"
  /\ \E k2 \in keys : ~Equivalent(last.key, k2) /\ CacheGet(k2) # Undefined

\* C9: there is at most one entry per normalized key, and a set repeated
\* with the same key and value leaves get(k) = v and adds no second entry.
C9_OneEntryPerKey ==
  [][/\ \A k1 \in keys, k2 \in keys :
          (/\ Equivalent(k1, k2)
           /\ Digest[k1] \in DOMAIN data'
           /\ Digest[k2] \in DOMAIN data')
            => Digest[k1] = Digest[k2]
     /\ (SetThenSet /\ last'.key = last.key /\ last'.val = last.val)
          => (CacheGet(last.key)' = last.val /\ getStatsKeys' = getStatsKeys)]_vars

\* C10: set(k, v1); set(k', v2); get(k) returns v2 for every k' equivalent
\* to k.
C10_Overwrite ==
  [][(SetThenSet /\ Equivalent(last.key, last'.key))
       => CacheGet(last.key)' = last'.val]_vars

----------------------------------------------------------------------------
(* C5..C8: memoization in PlaylistGenius *)

LlmMethods ==
  { "generatePlaylistSuggestions", "analyzeSong", "findSimilarArtists",
    "analyzeMusicTrend" }

\* the step is the invocation of the call in slot c
InvokeStep(c) == invoked' = invoked + 1 /\ calls'[c].id = invoked'

\* the step is the last upstream request of the call in slot c resolving
FetchSucceeds(c) ==
  /\ \/ calls[c].pc = "fetch" /\ calls[c].req.m # "findSimilarArtists"
     \/ calls[c].pc = "similar"
     \/ calls[c].pc = "genres"
  /\ calls'[c].pc \in { "returned", "rejected" }
  /\ calls'[c].err # "upstream"

\* the step is the upstream request of the call in slot c rejecting
FetchFails(c) ==
  /\ calls[c].pc \in { "fetch", "similar" }
  /\ calls'[c].pc = "rejected"
  /\ calls'[c].err = "upstream"

\* the live entries stored under a key equivalent to k
LiveEquivalents(k) ==
  { k2 \in AllKeys :
      IsCacheKey(k2) /\ Equivalent(k, k2) /\ CacheGet(k2) # Undefined }

\* C5: on a miss the upstream request is issued once and, when it resolves,
\* its result is stored under { type, criteria }; a call made while an entry
\* for equivalent criteria is live returns the stored result and issues no
\* upstream request.
C5_Memoized ==
  [][\A c \in Slots :
       LET r == calls'[c].req
       IN  /\ (InvokeStep(c) /\ r.m \in LlmMethods
                 /\ LiveEquivalents(KeyOf(r)) = { })
                => (calls'[c].pc = "fetch" /\ calls'[c].n = 1)
           /\ (FetchSucceeds(c) /\ r.m \in LlmMethods)
                => (/\ calls'[c].pc = "returned"
                    /\ CacheGet(KeyOf(calls[c].req))' = calls'[c].out)
           /\ \A k \in AllKeys :
                (InvokeStep(c) /\ r.m \in LlmMethods
                   /\ k \in LiveEquivalents(KeyOf(r)))
                  => (/\ calls'[c].pc = "returned"
                      /\ calls'[c].out = CacheGet(k)
                      /\ calls'[c].n = 0)]_vars

\* C6: when the upstream request of generatePlaylistSuggestions fails the
\* call rejects, it has issued exactly one upstream request, and neither its
\* cache lookup nor its failure creates or removes a live entry.
C6_FailureLeavesCache ==
  [][\A c \in Slots :
       LET r == calls'[c].req
       IN  (r.m = "generatePlaylistSuggestions"
              /\ (FetchFails(c) \/ (InvokeStep(c) /\ calls'[c].pc = "fetch")))
             => /\ DOMAIN data' \subseteq DOMAIN data
                /\ \A k \in AllKeys : CacheGet(k)' = CacheGet(k)
                /\ calls'[c].n = 1
                /\ FetchFails(c) =>
                     (/\ calls'[c].out = "Failed to generate playlist suggestions"
                      /\ UNCHANGED << data, hits, misses >>)]_vars

\* a call of generatePlaylistSuggestions was rejected because its upstream
\* request failed, while the cache holds an entry
C6_Witness ==
  \E c \in Slots :
    /\ calls[c].req.m = "generatePlaylistSuggestions"
    /\ calls[c].pc = "rejected" /\ calls[c].err = "upstream"
    /\ data # << >>

\* C7: analyzeUserTaste is memoized under { type: "user_taste_analysis",
\* criteria: { timeRange } }: the analysis of a call whose upstream requests
\* succeed is stored under that key, and a call made while the entry is live
\* returns it without a request to the streaming platform.
C7_UserTasteMemoized ==
  [][\A c \in Slots :
       LET r == calls'[c].req
       IN  /\ (FetchSucceeds(c) /\ r.m = "analyzeUserTaste")
                => CacheGet(KeyOf(calls[c].req))' = calls'[c].out
           /\ (InvokeStep(c) /\ r.m = "analyzeUserTaste" /\ spotify
                 /\ CacheGet(KeyOf(r)) # Undefined)
                => (/\ calls'[c].pc = "returned"
                    /\ calls'[c].out = CacheGet(KeyOf(r))
                    /\ calls'[c].n = 0)]_vars

\* C8: every call that misses issues its own upstream request, also while
\* another call with the same key is awaiting its request: nothing in flight
\* is shared.
C8_NoCoalescing ==
  [][\A c \in Slots :
       (InvokeStep(c) /\ calls'[c].req.m \in LlmMethods
          /\ CacheGet(KeyOf(calls'[c].req)) = Undefined)
         => (calls'[c].pc = "fetch" /\ calls'[c].n = 1)]_vars

\* two calls with the same key have both missed and both await their own
\* upstream request
C8_Witness ==
  /\ calls[1].req = calls[2].req
  /\ calls[1].req.m \in { "generatePlaylistSuggestions", "analyzeSong" }
  /\ calls[1].pc = "fetch" /\ calls[2].pc = "fetch"
  /\ calls[1].n = 1 /\ calls[2].n = 1
  /\ CacheGet(KeyOf(calls[1].req)) = Undefined

----------------------------------------------------------------------------
(* C11..C18: the contract of the cache operations *)

\* C11: invalidate(k) removes the entry of the normalized key k: afterwards
\* get is absent for every key equivalent to k, in particular after set(k, v);
\* the result of get is unchanged for every other key; it raises no error, and
\* when no entry of the normalized key exists it changes the result of no get.
C11_Invalidate ==
  [][(last'.op = "invalidate" /\ IsCacheKey(last'.key)) =>
       /\ last'.res = "ok"
       /\ \A k2 \in keys :
            IF Equivalent(last'.key, k2)
              THEN CacheGet(k2)' = Undefined
              ELSE CacheGet(k2)' = CacheGet(k2)
       /\ (\A k2 \in keys :
             Equivalent(last'.key, k2) => CacheGet(k2) = Undefined)
            => \A k2 \in keys : CacheGet(k2)' = CacheGet(k2)]_vars

\* the time the entry stored under digest d was written by set
insertedAt(d) == data[d].t - StdTTL

C13_TtlRestart ==
  [][\A k1 \in keys :
       (/\ last'.op = "set" /\ last'.key = k1 /\ IsCacheKey(k1)
        /\ \E k2 \in keys : Equivalent(k1, k2) /\ CacheGet(k2) # Undefined)
         => \A k2 \in keys :
              (Equivalent(k1, k2) /\ Digest[k2] \in DOMAIN data')
                => data'[Digest[k2]].t = now + StdTTL]_vars

\* the digests of the entries whose time-to-live has not elapsed
liveEntries == { d \in DOMAIN data : ~Expired(data[d], now) }

\* C14: a set of a new key on a cache that holds MaxKeys live entries does
\* not fail: an oldest entry is removed, the new entry is stored and get
\* returns it.
C14_EvictionNeverRejects ==
  [][\A key \in keys :
       (/\ last'.op = "set" /\ last'.key = key /\ IsCacheKey(key)
        /\ Digest[key] \notin DOMAIN data
        /\ Cardinality(liveEntries) = MaxKeys)
         => /\ last'.res = "ok"
            /\ CacheGet(key)' = last'.val
            /\ \E d \in DOMAIN data :
                 /\ d \notin DOMAIN data'
                 /\ \A e \in DOMAIN data : data[d].t <= data[e].t]_vars

\* C15: get never fails: for a null or undefined key, or a key without
\* criteria, get raises no error, returns absent unless a value was stored
\* under that very key, and leaves the result of every get unchanged.
C15_GetNeverFails ==
  [][\A key \in keys \cap MalformedKeys :
       (last'.op = "get" /\ last'.key = key)
         => /\ last'.res # "TypeError"
            /\ Digest[key] \notin DOMAIN data => last'.res = Undefined
            /\ \A k2 \in keys : CacheGet(k2)' = CacheGet(k2)]_vars

\* C16: no cache operation aborts the caller: when the upstream request of a
\* call of generatePlaylistSuggestions or analyzeSong resolves, the call
\* returns the fetched result, whatever the cache holds.
C16_CacheNeverAborts ==
  [][\A c \in Slots :
       (/\ calls[c].pc = "fetch"
        /\ calls[c].req.m \in { "generatePlaylistSuggestions", "analyzeSong" }
        /\ FetchSucceeds(c))
         => /\ calls'[c].pc = "returned"
            /\ calls'[c].out = Results[calls[c].id]]_vars

\* C17: right after clear, also through PlaylistGenius.clearCache, get is
\* absent for every key and getStats().keys is 0, and both stay so until the
\* next set.
C17_ClearEmpties ==
  [][/\ last'.op = "clear"
          => (getStatsKeys' = 0 /\ \A k \in AllKeys : CacheGet(k)' = Undefined)
     /\ (getStatsKeys = 0 /\ last'.op # "set")
          => (getStatsKeys' = 0 /\ \A k \in AllKeys : CacheGet(k)' = Undefined)]_vars

\* a call stored its result, the entry was still live when clearCache ran,
\* and the cache is empty
C17_Witness ==
  /\ last.op = "clear"
  /\ now <= StdTTL
  /\ getStatsKeys = 0
  /\ \E c \in Slots :
       /\ calls[c].req.m \in { "generatePlaylistSuggestions", "analyzeSong" }
       /\ calls[c].pc = "returned" /\ calls[c].n = 1

\* C18: a get that returns a stored value adds one to hits and nothing to
\* misses, a get that returns absent adds one to misses and nothing to hits,
\* and neither counter decreases under get, set or invalidate.
C18_HitMissAccounting ==
  [][/\ (last'.op = "get" /\ last'.res \notin { Undefined, "TypeError" })
          => (hits' = hits + 1 /\ misses' = misses)
     /\ (last'.op = "get" /\ last'.res = Undefined)
          => (misses' = misses + 1 /\ hits' = hits)
     /\ last'.op \in { "get", "set", "invalidate" }
          => (hits' >= hits /\ misses' >= misses)]_vars

\* after a set, a get of that key and a get of another key: one hit and one
\* miss are counted, and the entry is still stored
C18_Witness ==
  /\ last.op = "get" /\ last.res = Undefined
  /\ hits >= 1 /\ misses >= 1
  /\ \E key \in keys : key # last.key /\ CacheGet(key) # Undefined

----------------------------------------------------------------------------
(* C19, C20: the retry discipline of SpotifyService *)

\* C19: a call of makeSpotifyRequest invokes the wrapped request at most
\* MAX_RETRIES + 1 times (every invocation but the last one failed with
\* status 401), whatever the token refreshes in between did.
C19_MaxRetries ==
  \A p \in Slots :
    reqs[p].via = "makeSpotifyRequest" => reqs[p].n <= MAX_RETRIES + 1

\* C20: at most one spotify.refreshAccessToken() is in flight at any time.
C20_SingleFlight ==
  Cardinality({ p \in Slots : reqs[p].pc = "refreshing" }) <= 1

----------------------------------------------------------------------------
(* C25, C30: flat criteria as keys, statistics after clear *)

\* the arrays a and b hold the same elements, each as often
SameElements(a, b) ==
  /\ Len(a) = Len(b)
  /\ \A i \in 1..Len(a) :
       Cardinality({ j \in 1..Len(a) : a[j] = a[i] })
         = Cardinality({ j \in 1..Len(b) : b[j] = a[i] })

\* k1 and k2 are flat criteria that differ at most in the order of their
\* top-level properties and of the elements of their top-level arrays
FlatReordered(k1, k2) ==
  /\ IsObj(k1) /\ IsObj(k2)
  /\ ~IsCacheKey(k1) /\ ~IsCacheKey(k2)
  /\ Len(k1.v) = Len(k2.v)
  /\ \A i \in 1..Len(k1.v) : \E j \in 1..Len(k2.v) :
       /\ k1.v[i][1] = k2.v[j][1]
       /\ \/ k1.v[i][2] = k2.v[j][2]
          \/ /\ IsArr(k1.v[i][2]) /\ IsArr(k2.v[j][2])
             /\ SameElements(k1.v[i][2].v, k2.v[j][2].v)

FlatReorderedKeys ==
  { p \in AllKeys \X AllKeys : FlatReordered(p[1], p[2]) }

\* C25: two flat criteria objects that differ only in the order of their
\* top-level properties and top-level array elements have the same digest,
\* and a set with one followed by a get with the other returns the value.
C25_FlatCriteria ==
  [][\A k1 \in keys, k2 \in keys :
       << k1, k2 >> \in FlatReorderedKeys
         => /\ Digest[k1] = Digest[k2]
            /\ (SetThenGet /\ last.key = k1 /\ last'.key = k2)
                 => last'.res = last.val]_vars

\* a get with the criteria written mood first, genres indie first, has
\* returned a value while the client also uses the other order
C25_Witness ==
  /\ FlatKeys \subseteq keys
  /\ last.op = "get" /\ last.key = CritMoodFirstIndieRock
  /\ last.res \in Values
  /\ hits = 1 /\ misses = 0

\* C30: right after clear, getStats() reports hits = 0, misses = 0 and
\* keys = 0.
C30_ClearResetsStats ==
  [][last'.op = "clear"
       => (hits' = 0 /\ misses' = 0 /\ getStatsKeys' = 0)]_vars

\* clearCache has just run after a call was answered from the cache (a hit
\* had been counted, and the miss of the call that stored the entry)
C30_Witness ==
  /\ last.op = "clear"
  /\ hits = 0 /\ misses = 0 /\ getStatsKeys = 0
  /\ \E c \in Slots :
       /\ calls[c].req.m \in LlmMethods
       /\ calls[c].pc = "returned" /\ calls[c].n = 0

----------------------------------------------------------------------------
(* C21..C27: SpotifyService *)

\* C26: in every reachable state of a SpotifyService instance the retry
\* counter lies between 0 and MAX_RETRIES, whatever the interleaving of the
\* concurrent calls that go through ensureValidToken and makeSpotifyRequest.
C26_RetryCountBounded ==
  0 <= retryCount /\ retryCount <= MAX_RETRIES

\* the counter is at MAX_RETRIES while one call waits in the back-off of
\* makeSpotifyRequest and another one in the back-off of ensureValidToken
C26_Witness ==
  /\ retryCount = MAX_RETRIES
  /\ \E p \in Slots, q \in Slots :
       /\ reqs[p].pc = "requestSleep"
       /\ reqs[q].pc = "tokenSleep"

\* C27: the retry counter is shared by all calls and goes down only in a
\* step in which a token refresh resolves (never when a request resolves);
\* with MAX_RETRIES failures accumulated, a request that fails is rethrown
\* at once: the call fails with the status of that failure, without a
\* back-off and without another invocation.
C27_SharedBudget ==
  [][/\ retryCount' < retryCount
          => /\ retryCount' = 0
             /\ \E p \in Slots :
                  /\ reqs[p].pc = "refreshing"
                  /\ reqs'[p].pc = "requesting"
     /\ \A p \in Slots :
          (/\ retryCount = MAX_RETRIES
           /\ reqs[p].pc = "requesting"
           /\ reqs'[p].pc \notin { "requesting", "done" })
            => /\ reqs'[p].pc = "failed"
               /\ reqs'[p].err \in { "401", "500", "ECACHEFULL" }
               /\ reqs'[p].n = reqs[p].n
               /\ retryCount' = MAX_RETRIES]_vars

\* with the token still valid and the budget used up by earlier calls, a
\* makeSpotifyRequest call has failed on the first 401 of its request, and
\* the other call's request had succeeded
C27_Witness ==
  /\ retryCount = MAX_RETRIES
  /\ now < tokenExpirationTime
  /\ \E p \in Slots, q \in Slots :
       /\ reqs[p].via = "makeSpotifyRequest"
       /\ reqs[p].pc = "failed"
       /\ reqs[p].err = "401"
       /\ reqs[p].n = 1
       /\ reqs[q].via = "makeSpotifyRequest"
       /\ reqs[q].pc = "done"

\* a failed attempt of ensureValidToken in the step: one retry is taken
\* from the budget, or with the budget used up the call is rejected without
\* its endpoint having been called
AttemptFailed(p) ==
  IF retryCount < MAX_RETRIES
    THEN /\ reqs'[p].pc = "tokenSleep"
         /\ retryCount' = retryCount + 1
    ELSE /\ reqs'[p].pc = "failed"
         /\ reqs'[p].err # "none"
         /\ reqs'[p].n = 0

\* C22: a searchTracks call whose token is expired calls the track-search
\* endpoint only after a refresh of its own has resolved; every refresh
\* attempt that fails, and every attempt without a refresh token, takes one
\* retry from the budget and with the budget used up rejects the call with
\* the endpoint never called; the call returns only after the endpoint
\* answered.
C22_AuthFailureSurfaced ==
  [][\A p \in Slots :
       (reqs'[p] # reqs[p] /\ reqs'[p].via = "searchTracks")
         => /\ reqs'[p].pc = "requesting"
                 => \/ now < tokenExpirationTime
                    \/ reqs[p].pc = "refreshing" /\ now' < tokenExpirationTime'
            /\ (/\ reqs[p].pc = "refreshing"
                /\ reqs'[p].pc # "requesting")
                 => AttemptFailed(p)
            /\ (/\ reqs[p].pc # "refreshing"
                /\ reqs[p].pc # "requesting"
                /\ now >= tokenExpirationTime
                /\ refreshToken = Undefined)
                 => AttemptFailed(p)
            /\ reqs'[p].pc = "done" => reqs[p].pc = "requesting"]_vars

\* a searchTracks call was rejected with the error of its last refresh
\* attempt, the token expired and the endpoint never called; another one was
\* rejected for want of a refresh token
C22_Witness ==
  /\ now >= tokenExpirationTime
  /\ retryCount = MAX_RETRIES
  /\ \E p \in Slots, q \in Slots :
       /\ reqs[p].via = "searchTracks"
       /\ reqs[p].pc = "failed"
       /\ reqs[p].err = "500"
       /\ reqs[p].n = 0
       /\ reqs[q].via = "searchTracks"
       /\ reqs[q].pc = "failed"
       /\ reqs[q].err = "Authentication required"
       /\ reqs[q].n = 0

\* C23: a getArtist call whose token check has passed never rejects: when the
\* artist lookup settles the call returns, either the body of the response or
\* a placeholder whose id is the artistId passed, whose uri is
\* "spotify:artist:" followed by it, with an empty name, no genres, no
\* images, popularity 0 and 0 followers; a getArtist call is rejected only
\* before the lookup was made.
C23_ArtistPlaceholder ==
  [][\A p \in Slots :
       /\ (/\ reqs[p].via = "getArtist"
           /\ reqs[p].pc = "requesting"
           /\ reqs'[p] # reqs[p])
            => /\ reqs'[p].pc = "done"
               /\ reqs'[p].out.id = reqs[p].arg
               /\ reqs'[p].out.uri = "spotify:artist:" \o reqs[p].arg
               /\ \/ reqs'[p].out = ArtistBody(reqs[p].arg)
                  \/ /\ reqs'[p].out.name = ""
                     /\ reqs'[p].out.genres = << >>
                     /\ reqs'[p].out.images = << >>
                     /\ reqs'[p].out.popularity = 0
                     /\ reqs'[p].out.followers.total = 0
       /\ (/\ reqs'[p].via = "getArtist"
           /\ reqs'[p].pc = "failed")
            => reqs'[p].n = 0]_vars

\* with the token valid, a getArtist call whose lookup failed has returned
\* the placeholder of its artistId
C23_Witness ==
  /\ now < tokenExpirationTime
  /\ \E p \in Slots :
       /\ reqs[p].via = "getArtist"
       /\ reqs[p].arg = "artist2"
       /\ reqs[p].pc = "done"
       /\ reqs[p].n = 1
       /\ reqs[p].out.id = "artist2"
       /\ reqs[p].out.uri = "spotify:artist:artist2"
       /\ reqs[p].out.name = ""
       /\ reqs[p].out.popularity = 0

\* a call of the public refreshAccessToken() returns in the step
RefreshReturns(p) ==
  /\ reqs[p].via = "refreshAccessToken"
  /\ reqs[p].pc = "refreshing"
  /\ reqs'[p].pc = "done"

\* C24 as stated: refreshAccessToken returns the new access token, the
\* refresh token currently stored and the new lifetime, stores the new access
\* token, sets the expiration to now + expiresIn and leaves the stored
\* refresh token unchanged.
C24_RefreshReturnsStored ==
  [][\A p \in Slots :
       RefreshReturns(p)
         => /\ \E body \in Bodies :
                 /\ reqs'[p].tokens.accessToken = body.access_token
                 /\ reqs'[p].tokens.expiresIn = body.expires_in
            /\ reqs'[p].tokens.refreshToken = refreshToken
            /\ accessToken' = reqs'[p].tokens.accessToken
            /\ tokenExpirationTime' = now + reqs'[p].tokens.expiresIn
            /\ refreshToken' = refreshToken]_vars

\* C24, amended: as above, with the refresh token returned being the stored
\* one when one is stored and the empty string when none is.
C24_RefreshReturnsStoredOrEmpty ==
  [][\A p \in Slots :
       RefreshReturns(p)
         => /\ \E body \in Bodies :
                 /\ reqs'[p].tokens.accessToken = body.access_token
                 /\ reqs'[p].tokens.expiresIn = body.expires_in
            /\ reqs'[p].tokens.refreshToken =
                 IF refreshToken = Undefined THEN "" ELSE refreshToken
            /\ accessToken' = reqs'[p].tokens.accessToken
            /\ tokenExpirationTime' = now + reqs'[p].tokens.expiresIn
            /\ refreshToken' = refreshToken]_vars

\* after setTokens stored the granted tokens, refreshAccessToken has returned
\* the new access token with the stored refresh token
C24_Witness ==
  /\ accessToken = "access1"
  /\ refreshToken = "refresh0"
  /\ \E p \in Slots :
       /\ reqs[p].via = "refreshAccessToken"
       /\ reqs[p].pc = "done"
       /\ reqs[p].tokens = Tokens("access1", "refresh0", tokenExpirationTime - now)

\* C21: a getTrackFeatures call that finds the features in the cache returns
\* them without a token check and without calling the audio-features
\* endpoint; a call whose endpoint call resolves has called it once, has
\* stored the response under the key of the track and returns it.
C21_FeaturesMemoized ==
  [][\A p \in Slots :
       (reqs'[p] # reqs[p] /\ reqs'[p].via = "getTrackFeatures")
         => /\ (/\ Finished(p)
                /\ CacheGet(FeaturesKey) # Undefined)
                 => /\ reqs'[p].pc = "done"
                    /\ reqs'[p].out = Resolved(CacheGet(FeaturesKey))
                    /\ reqs'[p].n = 0
                    /\ UNCHANGED << tokenExpirationTime, retryCount,
                                    accessToken >>
            /\ (/\ reqs[p].pc = "requesting"
                /\ reqs'[p].err \notin { "401", "500" })
                 => /\ reqs'[p].pc = "done"
                    /\ reqs'[p].n = 1
                    /\ reqs'[p].out = Resolved("features")
                    /\ CacheGet(FeaturesKey)' = "features"]_vars

----------------------------------------------------------------------------
(* C28, C29: PlaylistGenius with and without a SpotifyService *)

\* the methods that test this.spotifyService first
GuardedMethods == FacadeMethods \cup TasteMethods

\* C28: without Spotify credentials a call of saveToSpotify,
\* analyzeUserTaste, generatePersonalizedPlaylist, getSpotifyAuthUrl,
\* handleSpotifyAuth, setSpotifyTokens or refreshSpotifyTokens fails with
\* "Spotify integration not enabled" in the step in which it is made: no
\* upstream request is issued, the cache is neither read nor written (table,
\* statistics and last operation unchanged) and no token is set.
C28_NotEnabled ==
  [][\A c \in Slots :
       (/\ ~spotify
        /\ InvokeStep(c)
        /\ calls'[c].req.m \in GuardedMethods)
         => /\ calls'[c].pc = "rejected"
            /\ calls'[c].out = NotEnabled
            /\ calls'[c].n = 0
            /\ UNCHANGED << data, hits, misses, last >>
            /\ UNCHANGED << tokenExpirationTime, refreshToken, accessToken >>]_vars

\* without Spotify credentials, with an analysis stored in the cache, a call
\* of refreshSpotifyTokens and a call of saveToSpotify have been rejected
C28_Witness ==
  /\ ~spotify
  /\ data # << >>
  /\ calls[1].req.m = "refreshSpotifyTokens"
  /\ calls[1].pc = "rejected" /\ calls[1].out = NotEnabled
  /\ calls[2].req.m = "saveToSpotify"
  /\ calls[2].pc = "rejected" /\ calls[2].out = NotEnabled

\* the elements of the sequence s
Elements(s) == { s[i] : i \in 1..Len(s) }

\* C29: a call of generateEnhancedPlaylist never rejects.  When the
\* generation of the suggestions fails it returns the "Failed to generate
\* suggestions" result without spotifyTracks; a search that settles leaves
\* the call running with its suggestions; the tracks returned are those the
\* searches found, in the order of the songs, followed by the recommendations
\* when that call succeeds; without Spotify credentials the suggestions are
\* returned alone.
C29_EnhancedNeverRejects ==
  [][\A c \in Slots :
       (calls'[c] # calls[c] /\ calls'[c].req.m = "generateEnhancedPlaylist")
         => /\ calls'[c].pc # "rejected"
            /\ calls'[c].err = "none"
            /\ (calls[c].pc = "suggestions" /\ calls'[c].out \notin AllResults)
                 => /\ calls'[c].pc = "returned"
                    /\ calls'[c].out = FailedSuggestions
                    /\ calls'[c].tracks = Absent
            /\ calls[c].pc = "search"
                 => /\ calls'[c].pc \in { "search", "recommendations" }
                    /\ calls'[c].out = calls[c].out
            /\ calls[c].pc = "recommendations"
                 => /\ calls'[c].pc = "returned"
                    /\ calls'[c].out = calls[c].out
                    /\ "null" \notin Elements(calls'[c].tracks)
                    /\ \A i \in 1..Len(Songs) :
                         ("track of " \o Songs[i]) \in Elements(calls'[c].tracks)
                           <=> calls[c].search[i] # "null"
                    /\ \/ calls'[c].tracks = Found(calls[c].search)
                       \/ calls'[c].tracks =
                            Found(calls[c].search) \o << "recommended" >>
            /\ (~spotify /\ calls'[c].pc = "returned")
                 => /\ calls'[c].tracks = Absent
                    /\ calls'[c].out \in AllResults \cup { FailedSuggestions }]_vars

\* with Spotify credentials a call of generateEnhancedPlaylist has returned
\* its suggestions with the track of the second song only: the search of the
\* first song and the recommendation call had failed
C29_Witness ==
  /\ spotify
  /\ \E c \in Slots :
       /\ calls[c].req.m = "generateEnhancedPlaylist"
       /\ calls[c].pc = "returned"
       /\ calls[c].out \in AllResults
       /\ calls[c].search = << "null", "track of song2" >>
       /\ calls[c].tracks = << "track of song2" >>

====
